---- MODULE Spec2Model ----
(***************************************************************************)
(* Directory-Meta-Data-Extractor (src/index.js).                           *)
(*                                                                         *)
(* One run of the script: ensureDataFolderExists, the recursive walk       *)
(* getAllDirectoriesRecursively over the Documents folder, the un-awaited   *)
(* call of main() (a second, counting walk), and writeDirectoriesToFile     *)
(* (a CSV append stream that is never awaited and an awaited JSON           *)
(* writeFile).                                                              *)
(*                                                                         *)
(* Representation.  A file name is the sequence of its characters, so that  *)
(* file.startsWith('.') is a test on the first character.  A path is the    *)
(* sequence of its segments (POSIX: split on '/'); a relative path is a     *)
(* sequence of segments that may start with ".." segments.  Every state of  *)
(* the model is a point where the event loop waits: an action is the        *)
(* completion of one asynchronous operation followed by all the synchronous *)
(* code (and promise continuations) up to the next await.                   *)
(*                                                                         *)
(* Not modelled: the stat fields copied into a record other than the ones   *)
(* the walk decides on (atime, mtime, uid, gid, mode), console output, and  *)
(* the order readdir lists a directory in (a fixed order is used).          *)
(***************************************************************************)
EXTENDS Naturals, Sequences, FiniteSets, TLC

VARIABLES
    fsys,            \* the file system under the home directory: path -> node
    now,             \* the instant new Date() returns (index.js:221)
    run,             \* number of the current invocation of the script
    pc,              \* position of getAllDirectoriesInDocumentsFolder
    stack,           \* call stack of getAllDirectoriesRecursively
    allDirectories,  \* the Set of directoryMetadata, in insertion order
    listed,          \* history: the directoryPath of every readdir the walk of
                     \* getAllDirectoriesRecursively has issued, in order
    timestamp,       \* the timestamp of the run's file names, 0 before it is taken
    scanError,       \* a readdir/lstat/realpath of the walk has failed
    mainPass,        \* main(): 0 not called, 1 count walk, 2 progress walk,
                     \* 3 returned, 4 rejected
    mainStack,       \* call stack of countDirectoriesRecursively / main's loop
    csvWriteStream,  \* the fs.WriteStream of writeDirectoriesToFile
    dataFolder,      \* whether DATA_FOLDER_PATH exists
    dataFiles,       \* the files of the data folder: name -> content
    crashed          \* the process was ended by an unhandled rejection or error

vars == <<fsys, now, run, pc, stack, allDirectories, listed, timestamp, scanError, mainPass,
          mainStack, csvWriteStream, dataFolder, dataFiles, crashed>>

---------------------------------------------------------------------------
(* Bounds of the model *)

\* directory entries created below the scan root
MaxEntries == 3
\* depth of the tree below the scan root
MaxDepth == 2
\* invocations of the script (specification SpecRuns)
MaxRuns == 2

---------------------------------------------------------------------------
(* File names *)

nHome == <<"h", "o", "m", "e">>
nDocuments == <<"D", "o", "c", "u", "m", "e", "n", "t", "s">>
nExt == <<"e", "x", "t">>
nA == <<"A">>
nB == <<"B">>
nHidden == <<".", "h">>
nGit == <<".", "g", "i", "t">>
nVscode == <<".", "v", "s", "c", "o", "d", "e">>
nNodeModules == <<"n", "o", "d", "e", "_", "m", "o", "d", "u", "l", "e", "s">>
nNote == <<"n", "o", "t", "e", ".", "t", "x", "t">>
nLink == <<"L">>
dotdot == <<".", ".">>

\* os.homedir()
homedir == <<nHome>>

DOCUMENTS_FOLDER_PATH == homedir \o <<nDocuments>>

IGNORED_DIRECTORIES == {nGit, nVscode, nNodeModules}

---------------------------------------------------------------------------
(* path *)

\* path.join(directoryPath, file) for a normalized directoryPath and a
\* file name returned by readdir (never "." or "..", never holding a '/')
join(directoryPath, file) == Append(directoryPath, file)

\* length of the longest common prefix of two segment sequences
RECURSIVE commonLength(_, _)
commonLength(from, to) ==
    IF from = <<>> \/ to = <<>> \/ Head(from) # Head(to) THEN 0
    ELSE 1 + commonLength(Tail(from), Tail(to))

\* path.relative(from, to) for two normalized absolute paths: one ".."
\* for every segment of from after the common prefix, then the rest of to
relative(from, to) ==
    LET c == commonLength(from, to)
    IN  [i \in 1..(Len(from) - c) |-> dotdot] \o SubSeq(to, c + 1, Len(to))

\* path.normalize of an absolute path followed by relative segments: a ".."
\* drops the segment before it (and is dropped itself at the root)
RECURSIVE normalizeOnto(_, _)
normalizeOnto(base, segments) ==
    IF segments = <<>> THEN base
    ELSE IF Head(segments) = dotdot
         THEN normalizeOnto(IF base = <<>> THEN base
                            ELSE SubSeq(base, 1, Len(base) - 1), Tail(segments))
         ELSE normalizeOnto(Append(base, Head(segments)), Tail(segments))

---------------------------------------------------------------------------
(* The file system the script reads *)

DirNode == [kind |-> "dir", target |-> <<>>]
FileNode == [kind |-> "file", target |-> <<>>]
LinkNode(t) == [kind |-> "link", target |-> t]

\* where a symbolic link may point: a directory inside the tree (present or
\* not), the scan root itself (a cycle), a directory outside the tree
LinkTargets == {join(DOCUMENTS_FOLDER_PATH, nA), DOCUMENTS_FOLDER_PATH,
                join(homedir, nExt)}

\* the nodes an entry of a given name may be
NodesFor(name) ==
    IF name = nNote THEN {FileNode}
    ELSE IF name = nLink THEN {LinkNode(t) : t \in LinkTargets}
    ELSE {DirNode}

\* the order readdir lists names in
NameOrder == <<nHidden, nA, nB, nLink, nNodeModules, nNote>>

Names == {NameOrder[i] : i \in 1..Len(NameOrder)}

\* home, the scan root and a directory outside it
BaseTree ==
    (homedir :> DirNode) @@ (DOCUMENTS_FOLDER_PATH :> DirNode)
        @@ (join(homedir, nExt) :> DirNode)

IsUnderRoot(p) ==
    /\ Len(p) > Len(DOCUMENTS_FOLDER_PATH)
    /\ SubSeq(p, 1, Len(DOCUMENTS_FOLDER_PATH)) = DOCUMENTS_FOLDER_PATH

\* the paths at which one more entry can be created in tree t
NewPaths(t) ==
    {join(d, n) : d \in {q \in DOMAIN t :
                            /\ t[q].kind = "dir"
                            /\ q = DOCUMENTS_FOLDER_PATH \/ IsUnderRoot(q)
                            /\ Len(q) - Len(DOCUMENTS_FOLDER_PATH) < MaxDepth},
                  n \in Names} \ DOMAIN t

RECURSIVE Trees(_)
Trees(n) ==
    IF n = 0 THEN {BaseTree}
    ELSE LET T == Trees(n - 1)
         IN  T \cup UNION {UNION {{(p :> node) @@ t : node \in NodesFor(p[Len(p)])}
                                    : p \in NewPaths(t)} : t \in T}

FileSystems == Trees(MaxEntries)

\* fs.promises.readdir(directoryPath), when it succeeds
readdir(directoryPath) ==
    SelectSeq(NameOrder, LAMBDA n : join(directoryPath, n) \in DOMAIN fsys)

\* fs.promises.lstat(filePath), when it succeeds: the node itself, a
\* symbolic link is not followed
lstat(filePath) == fsys[filePath]

\* fs.promises.realpath(filePath) of a symbolic link
realpath(filePath) == fsys[filePath].target

\* isDirectory as fs.promises.stat would answer it: a symbolic link to a
\* directory counts as a directory
isDirectoryFollowingLinks(fileStat) ==
    \/ fileStat.kind = "dir"
    \/ /\ fileStat.kind = "link"
       /\ fileStat.target \in DOMAIN fsys
       /\ fsys[fileStat.target].kind = "dir"

\* fs.Stats.isDirectory() of an lstat result
isDirectory(fileStat) == fileStat.kind = "dir"

\* fs.Stats.isSymbolicLink() of an lstat result
isSymbolicLink(fileStat) == fileStat.kind = "link"

---------------------------------------------------------------------------
(* getAllDirectoriesRecursively *)

\* an activation of getAllDirectoriesRecursively (or of
\* countDirectoriesRecursively) waiting for its readdir
Call(directoryPath) ==
    [directoryPath |-> directoryPath, files |-> <<>>, file |-> <<>>,
     op |-> "readdir"]

Top(s) == s[Len(s)]

Pop(s) == SubSeq(s, 1, Len(s) - 1)

\* the for loop after an entry is dealt with: the innermost activation
\* takes its next file and waits for its lstat; an activation with no file
\* left returns and its caller's loop goes on
RECURSIVE Advance(_)
Advance(s) ==
    IF s = <<>> THEN <<>>
    ELSE IF Top(s).files = <<>> THEN Advance(Pop(s))
    ELSE Append(Pop(s), [Top(s) EXCEPT !.file = Head(Top(s).files),
                                       !.files = Tail(Top(s).files),
                                       !.op = "lstat"])

\* const filePath = path.join(directoryPath, file) of the innermost activation
filePathOf(s) == join(Top(s).directoryPath, Top(s).file)

\* the test without its startsWith('.') half
isIgnoredListOnly(file) == file \in IGNORED_DIRECTORIES

\* file.startsWith('.') || IGNORED_DIRECTORIES.includes(file)
isIgnored(file) ==
    \/ Len(file) >= 1 /\ file[1] = "."
    \/ file \in IGNORED_DIRECTORIES

\* let directoryAbsolutePath = filePath; if (fileStat.isSymbolicLink()) ...
directoryAbsolutePath(filePath, fileStat) ==
    IF isSymbolicLink(fileStat) THEN realpath(filePath) ELSE filePath

\* uuidv4(): a value no other record of any run has
uuidv4 == <<run, Len(allDirectories) + 1>>

\* the record with relative_path taken against the directory being listed
directoryMetadataFromParent(directoryPath, file, fileStat) ==
    LET abs == directoryAbsolutePath(join(directoryPath, file), fileStat)
    IN  [uuid |-> uuidv4,
         name |-> file,
         relative_path |-> relative(directoryPath, abs),
         absolute_path |-> abs]

\* the record built for entry file of directoryPath
directoryMetadata(directoryPath, file, fileStat) ==
    LET abs == directoryAbsolutePath(join(directoryPath, file), fileStat)
    IN  [uuid |-> uuidv4,
         name |-> file,
         relative_path |-> relative(DOCUMENTS_FOLDER_PATH, abs),
         absolute_path |-> abs]

\* the loop going on to the next file without the recursive call
DescendSkipped(s, directoryAbsolutePath_) == Advance(s)

\* await getAllDirectoriesRecursively(directoryAbsolutePath, allDirectories)
Descend(s, directoryAbsolutePath_) == Append(s, Call(directoryAbsolutePath_))

\* line 213 without its await: the walk has been started
TraversalStarted == pc = "scan"

\* line 213's await has its value: the outermost activation has returned
TraversalReturned == pc = "scan" /\ stack = <<>>

\* ensureDataFolderExists() and the call of line 213, up to its readdir
Start ==
    /\ pc = "start"
    /\ ~crashed
    /\ dataFolder' = TRUE
    /\ stack' = <<Call(DOCUMENTS_FOLDER_PATH)>>
    /\ listed' = Append(listed, DOCUMENTS_FOLDER_PATH)
    /\ pc' = "scan"
    /\ UNCHANGED <<fsys, now, run, allDirectories, timestamp, scanError,
                   mainPass, mainStack, csvWriteStream, dataFiles, crashed>>

\* line 39: readdir lists the directory
ReaddirReturns ==
    /\ pc = "scan" /\ stack # <<>> /\ ~crashed
    /\ Top(stack).op = "readdir"
    /\ stack' = Advance(Append(Pop(stack),
                    [Top(stack) EXCEPT !.files = readdir(Top(stack).directoryPath)]))
    /\ UNCHANGED <<fsys, listed, now, run, pc, allDirectories, timestamp, scanError,
                   mainPass, mainStack, csvWriteStream, dataFolder, dataFiles,
                   crashed>>

\* lines 57-132: lstat answers, the loop body runs to its next await
LstatReturns ==
    /\ pc = "scan" /\ stack # <<>> /\ ~crashed
    /\ Top(stack).op = "lstat"
    /\ LET fileStat == lstat(filePathOf(stack))
           file == Top(stack).file
           meta == directoryMetadata(Top(stack).directoryPath, file, fileStat)
       IN  IF isDirectory(fileStat) /\ ~isIgnored(file)
           THEN /\ allDirectories' = Append(allDirectories, meta)
                /\ stack' = Descend(stack, meta.absolute_path)
           ELSE /\ allDirectories' = allDirectories
                /\ stack' = Advance(stack)
    /\ listed' = IF stack' # <<>> /\ Top(stack').op = "readdir"
                  THEN Append(listed, Top(stack').directoryPath)
                  ELSE listed
    /\ UNCHANGED <<fsys, now, run, pc, timestamp, scanError, mainPass,
                   mainStack, csvWriteStream, dataFolder, dataFiles, crashed>>

\* line 39 throws: no activation catches, the promise of line 213 rejects
\* and nothing handles the rejection of line 228
ReaddirFails ==
    /\ pc = "scan" /\ stack # <<>> /\ ~crashed
    /\ Top(stack).op = "readdir"
    /\ scanError' = TRUE
    /\ stack' = <<>>
    /\ pc' = "rejected"
    /\ crashed' \in BOOLEAN
    /\ UNCHANGED <<fsys, listed, now, run, allDirectories, timestamp, mainPass,
                   mainStack, csvWriteStream, dataFolder, dataFiles>>

\* the lstat error caught and the entry skipped
LstatFailsSkipped ==
    /\ pc = "scan" /\ stack # <<>> /\ ~crashed
    /\ Top(stack).op = "lstat"
    /\ scanError' = TRUE
    /\ stack' = Advance(stack)
    /\ UNCHANGED <<fsys, listed, now, run, pc, allDirectories, timestamp, mainPass,
                   mainStack, csvWriteStream, dataFolder, dataFiles, crashed>>

\* line 57 (or 85) throws
LstatFails ==
    /\ pc = "scan" /\ stack # <<>> /\ ~crashed
    /\ Top(stack).op = "lstat"
    /\ scanError' = TRUE
    /\ stack' = <<>>
    /\ pc' = "rejected"
    /\ crashed' \in BOOLEAN
    /\ UNCHANGED <<fsys, listed, now, run, allDirectories, timestamp, mainPass,
                   mainStack, csvWriteStream, dataFolder, dataFiles>>

---------------------------------------------------------------------------
(* writeDirectoriesToFile *)

NoStream == [file |-> <<>>, state |-> "none", buffer |-> <<>>]

\* `directories_${timestamp}.csv` in DATA_FOLDER_PATH; the timestamp string
\* is the instant's ISO form with ':' replaced, one string per instant
csvFilePath(timestamp_) == <<"directories_", timestamp_, ".csv">>

jsonFilePath(timestamp_) == <<"directories_", timestamp_, ".json">>

csvHeader ==
    [kind |-> "header",
     text |-> "uuid,name,relative_path,absolute_path,last_accessed,last_modified,owner,group,permissions"]

\* the line written for one directory (its modelled fields)
csvLine(directory) == [kind |-> "row", text |-> directory]

\* the chunks handed to csvWriteStream.write, lines 174-181
csvChunks(directories) ==
    <<csvHeader>> \o [i \in 1..Len(directories) |-> csvLine(directories[i])]

\* JSON.stringify([...directories], null, 2)
jsonContent(directories) == [kind |-> "json", text |-> directories]

\* lines 215-191: main() is called and not awaited, the timestamp is taken,
\* the stream is created and written to, writeFile is issued and awaited
StartWrite ==
    /\ TraversalReturned
    /\ ~crashed
    /\ mainPass' = 1
    /\ mainStack' = <<Call(DOCUMENTS_FOLDER_PATH)>>
    /\ timestamp' = now
    /\ csvWriteStream' = [file |-> csvFilePath(now), state |-> "opening",
                          buffer |-> csvChunks(allDirectories)]
    /\ pc' = "write"
    /\ UNCHANGED <<fsys, listed, now, run, stack, allDirectories, scanError,
                   dataFolder, dataFiles, crashed>>

\* the stream's open with flags 'a' completes: the file exists, what it
\* held is kept, and the buffered chunks go out in one writev
StreamOpens ==
    /\ csvWriteStream.state = "opening" /\ ~crashed
    /\ csvWriteStream' = [csvWriteStream EXCEPT !.state = "writing"]
    /\ dataFiles' = IF csvWriteStream.file \in DOMAIN dataFiles THEN dataFiles
                    ELSE (csvWriteStream.file :> <<>>) @@ dataFiles
    /\ UNCHANGED <<fsys, listed, now, run, pc, stack, allDirectories, timestamp,
                   scanError, mainPass, mainStack, dataFolder, crashed>>

\* the stream's writev completes: the chunks are appended
StreamWrites ==
    /\ csvWriteStream.state = "writing" /\ ~crashed
    /\ dataFiles' = [dataFiles EXCEPT ![csvWriteStream.file] =
                        @ \o csvWriteStream.buffer]
    /\ csvWriteStream' = [csvWriteStream EXCEPT !.state = "idle",
                                                !.buffer = <<>>]
    /\ UNCHANGED <<fsys, listed, now, run, pc, stack, allDirectories, timestamp,
                   scanError, mainPass, mainStack, dataFolder, crashed>>

\* the stream's open or writev fails: 'error' is emitted, nothing listens
StreamFails ==
    /\ csvWriteStream.state \in {"opening", "writing"} /\ ~crashed
    /\ csvWriteStream' = [csvWriteStream EXCEPT !.state = "errored"]
    /\ crashed' = TRUE
    /\ UNCHANGED <<fsys, listed, now, run, pc, stack, allDirectories, timestamp,
                   scanError, mainPass, mainStack, dataFolder, dataFiles>>

\* line 191: writeFile (flag 'w') completes, the promises of
\* writeDirectoriesToFile and getAllDirectoriesInDocumentsFolder resolve
WriteFileReturns ==
    /\ pc = "write" /\ ~crashed
    /\ dataFiles' = (jsonFilePath(timestamp) :> <<jsonContent(allDirectories)>>)
                        @@ dataFiles
    /\ pc' = "done"
    /\ UNCHANGED <<fsys, listed, now, run, stack, allDirectories, timestamp, scanError,
                   mainPass, mainStack, csvWriteStream, dataFolder, crashed>>

\* line 191 throws: an unhandled rejection
WriteFileFails ==
    /\ pc = "write" /\ ~crashed
    /\ pc' = "rejected"
    /\ crashed' \in BOOLEAN
    /\ UNCHANGED <<fsys, listed, now, run, stack, allDirectories, timestamp, scanError,
                   mainPass, mainStack, csvWriteStream, dataFolder, dataFiles>>

---------------------------------------------------------------------------
(* main and countDirectoriesRecursively *)

\* main's walks are over: after countDirectoriesRecursively(directoryPath)
\* (line 309) comes the loop of lines 313-323, which issues the same
\* operations again; after it main returns
MainNext(s) ==
    IF s # <<>> THEN [pass |-> mainPass, stack |-> s]
    ELSE IF mainPass = 1
         THEN [pass |-> 2, stack |-> <<Call(DOCUMENTS_FOLDER_PATH)>>]
         ELSE [pass |-> 3, stack |-> <<>>]

\* lines 248 and 313: readdir lists the directory
MainReaddirReturns ==
    /\ mainPass \in {1, 2} /\ ~crashed
    /\ Top(mainStack).op = "readdir"
    /\ LET n == MainNext(Advance(Append(Pop(mainStack),
                    [Top(mainStack) EXCEPT
                        !.files = readdir(Top(mainStack).directoryPath)])))
       IN  mainPass' = n.pass /\ mainStack' = n.stack
    /\ UNCHANGED <<fsys, listed, now, run, pc, stack, allDirectories, timestamp,
                   scanError, csvWriteStream, dataFolder, dataFiles, crashed>>

\* lines 273-286 and 316-322: lstat answers; a directory is counted and
\* walked, whatever its name
MainLstatReturns ==
    /\ mainPass \in {1, 2} /\ ~crashed
    /\ Top(mainStack).op = "lstat"
    /\ LET n == MainNext(IF isDirectory(lstat(filePathOf(mainStack)))
                         THEN Append(mainStack, Call(filePathOf(mainStack)))
                         ELSE Advance(mainStack))
       IN  mainPass' = n.pass /\ mainStack' = n.stack
    /\ UNCHANGED <<fsys, listed, now, run, pc, stack, allDirectories, timestamp,
                   scanError, csvWriteStream, dataFolder, dataFiles, crashed>>

\* a readdir or lstat of main throws: main's promise, which nothing awaits,
\* rejects
MainFails ==
    /\ mainPass \in {1, 2} /\ ~crashed
    /\ mainPass' = 4
    /\ mainStack' = <<>>
    /\ crashed' \in BOOLEAN
    /\ UNCHANGED <<fsys, listed, now, run, pc, stack, allDirectories, timestamp,
                   scanError, csvWriteStream, dataFolder, dataFiles>>

---------------------------------------------------------------------------
(* The process *)

\* the asynchronous file system operations that are issued and not complete
inFlight ==
    (IF pc = "scan" /\ stack # <<>> THEN {<<"walk", Top(stack).op>>} ELSE {})
    \cup (IF pc = "write" THEN {<<"writer", "writeFile">>} ELSE {})
    \cup (IF csvWriteStream.state = "opening" THEN {<<"stream", "open">>}
          ELSE IF csvWriteStream.state = "writing" THEN {<<"stream", "writev">>}
          ELSE {})
    \cup (IF mainPass \in {1, 2} THEN {<<"main", Top(mainStack).op>>} ELSE {})

\* the process has ended: it was killed, or nothing is left to wait for
Exited == crashed \/ (pc # "start" /\ ~TraversalReturned /\ inFlight = {})

\* the run ended with every operation it issued completed
RunFinished ==
    /\ ~crashed /\ pc = "done" /\ mainPass = 3 /\ csvWriteStream.state = "idle"

Init ==
    /\ fsys \in FileSystems
    /\ now = 1
    /\ run = 1
    /\ pc = "start"
    /\ stack = <<>>
    /\ allDirectories = <<>>
    /\ listed = <<>>
    /\ timestamp = 0
    /\ scanError = FALSE
    /\ mainPass = 0
    /\ mainStack = <<>>
    /\ csvWriteStream = NoStream
    /\ dataFolder = FALSE
    /\ dataFiles = <<>>
    /\ crashed = FALSE

Next ==
    \/ Start
    \/ ReaddirReturns
    \/ LstatReturns
    \/ ReaddirFails
    \/ LstatFails
    \/ StartWrite
    \/ StreamOpens
    \/ StreamWrites
    \/ StreamFails
    \/ WriteFileReturns
    \/ WriteFileFails
    \/ MainReaddirReturns
    \/ MainLstatReturns
    \/ MainFails

Spec == Init /\ [][Next]_vars

---------------------------------------------------------------------------
(* The walk alone: getAllDirectoriesRecursively(DOCUMENTS_FOLDER_PATH) *)

NextWalk ==
    \/ Start
    \/ ReaddirReturns
    \/ LstatReturns
    \/ ReaddirFails
    \/ LstatFails

\* the event loop completes every operation it has been handed: a pending
\* readdir or lstat is answered (or fails)
SpecWalk ==
    /\ Init
    /\ [][NextWalk]_vars
    /\ WF_vars(Start)
    /\ WF_vars(ReaddirReturns)
    /\ WF_vars(LstatReturns)

---------------------------------------------------------------------------
(* Repeated invocations: the data folder and its files outlive a run *)

\* the script is started again after the process has ended; the clock has
\* moved on, or has not (the same millisecond, a clock set back)
Rerun ==
    /\ Exited
    /\ run < MaxRuns
    /\ run' = run + 1
    /\ now' \in {now, now + 1}
    /\ pc' = "start"
    /\ stack' = <<>>
    /\ allDirectories' = <<>>
    /\ listed' = <<>>
    /\ timestamp' = 0
    /\ scanError' = FALSE
    /\ mainPass' = 0
    /\ mainStack' = <<>>
    /\ csvWriteStream' = NoStream
    /\ crashed' = FALSE
    /\ UNCHANGED <<fsys, dataFolder, dataFiles>>

InitRuns ==
    /\ Init
    /\ Cardinality(DOMAIN fsys) <= Cardinality(DOMAIN BaseTree) + 1

NextRuns == Next \/ Rerun

SpecRuns == InitRuns /\ [][NextRuns]_vars

---------------------------------------------------------------------------
(* Properties *)

\* the segments of an absolute path below the scan root
BelowRoot(p) == SubSeq(p, Len(DOCUMENTS_FOLDER_PATH) + 1, Len(p))

\* a base name that starts with '.' or is one of .git, .vscode, node_modules
HiddenOrIgnoredName(n) == Head(n) = "." \/ n \in {nGit, nVscode, nNodeModules}

\* the directory or one of its ancestors below the root has such a name
InIgnoredSubtree(p) ==
    \E i \in 1..Len(BelowRoot(p)) : HiddenOrIgnoredName(BelowRoot(p)[i])

\* the real directories strictly below the scan root
RealDirectories == {p \in DOMAIN fsys : IsUnderRoot(p) /\ fsys[p].kind = "dir"}

\* the walk of line 213 has returned its collection
ScanCompleted == TraversalReturned \/ (pc \in {"write", "done", "rejected"} /\ ~scanError)

Records == {allDirectories[i] : i \in 1..Len(allDirectories)}

\* C1: no record is ever held for a directory whose base name is hidden or
\* ignored, nor for a directory below such a directory, at any depth
C1_IgnoredSubtreesHaveNoRecord ==
    \A p \in RealDirectories :
        InIgnoredSubtree(p) => \A r \in Records : r.absolute_path # p

\* C1 witness: a walk has completed over a tree with a directory inside a
\* hidden or ignored directory, and recorded some other directory
C1_Witness ==
    /\ ScanCompleted
    /\ allDirectories # <<>>
    /\ \E p \in RealDirectories :
            /\ Len(BelowRoot(p)) >= 2
            /\ HiddenOrIgnoredName(BelowRoot(p)[1])

\* the symbolic links below the root, outside ignored subtrees, whose target
\* is a directory
SymlinkedDirectories ==
    {p \in DOMAIN fsys :
        /\ IsUnderRoot(p)
        /\ fsys[p].kind = "link"
        /\ ~InIgnoredSubtree(p)
        /\ fsys[p].target \in DOMAIN fsys
        /\ fsys[fsys[p].target].kind = "dir"}

\* C2: a completed scan holds exactly one record for every symbolic link to
\* a directory, and its absolute_path is the link's target
C2_SymlinkedDirectoryHasOneRecord ==
    ScanCompleted =>
        \A p \in SymlinkedDirectories :
            Cardinality({i \in 1..Len(allDirectories) :
                            /\ allDirectories[i].name = p[Len(p)]
                            /\ allDirectories[i].absolute_path = fsys[p].target}) = 1

\* no symbolic link and no hidden or ignored name below the root
PlainTree ==
    \A p \in DOMAIN fsys :
        IsUnderRoot(p) => fsys[p].kind # "link" /\ ~InIgnoredSubtree(p)

CsvHasRow(content, directory) ==
    \E j \in 1..Len(content) :
        content[j].kind = "row" /\ content[j].text = directory

\* C3: over a plain tree with N real directories a completed scan holds
\* exactly N records, one per directory, none for the root or for a file;
\* once the run has finished the CSV file has a row for each of them and
\* the JSON file holds each of them
C3_OneRecordPerDirectory ==
    PlainTree =>
        /\ ScanCompleted =>
            /\ Len(allDirectories) = Cardinality(RealDirectories)
            /\ {r.absolute_path : r \in Records} = RealDirectories
        /\ RunFinished =>
            /\ csvFilePath(timestamp) \in DOMAIN dataFiles
            /\ jsonFilePath(timestamp) \in DOMAIN dataFiles
            /\ \A r \in Records :
                /\ CsvHasRow(dataFiles[csvFilePath(timestamp)], r)
                /\ \E k \in 1..Len(dataFiles[jsonFilePath(timestamp)][1].text) :
                        dataFiles[jsonFilePath(timestamp)][1].text[k] = r
            /\ Len(dataFiles[jsonFilePath(timestamp)][1].text)
                    = Cardinality(RealDirectories)

\* C3 witness: a finished run over a plain tree with nested directories and
\* a plain file
C3_Witness ==
    /\ RunFinished
    /\ PlainTree
    /\ Cardinality(RealDirectories) >= 2
    /\ \E p \in RealDirectories : Len(BelowRoot(p)) >= 2
    /\ \E p \in DOMAIN fsys : IsUnderRoot(p) /\ fsys[p].kind = "file"

\* C4: at no point do two records have the same absolute_path
C4_AbsolutePathsDistinct ==
    \A i, j \in 1..Len(allDirectories) :
        i # j => allDirectories[i].absolute_path # allDirectories[j].absolute_path

\* C4 witness: a completed scan with two records over a tree in which a
\* symbolic link points to a recorded directory
C4_Witness ==
    /\ ScanCompleted
    /\ Len(allDirectories) >= 2
    /\ \E p \in SymlinkedDirectories :
            \E r \in Records : r.absolute_path = fsys[p].target

IsPrefix(s, t) == Len(s) <= Len(t) /\ \A i \in 1..Len(s) : s[i] = t[i]

\* C5: no step removes or changes what a file of the data folder holds
C5_ExistingContentKept ==
    [][\A f \in DOMAIN dataFiles :
            /\ f \in DOMAIN dataFiles'
            /\ IsPrefix(dataFiles[f], dataFiles'[f])]_vars

\* the run has issued a write to an output file
WritingBegun ==
    \/ csvWriteStream.state # "none"
    \/ pc \in {"write", "done"}
    \/ dataFiles # <<>>

\* the directories the walk is to record: real, outside ignored subtrees
ExpectedDirectories == {p \in RealDirectories : ~InIgnoredSubtree(p)}

\* C6: a write is issued only once the walk has returned the full
\* collection, and the collection does not change from then on
C6_WriteAfterFullTraversal ==
    /\ [](WritingBegun =>
            /\ stack = <<>>
            /\ pc \notin {"start", "scan"}
            /\ ~scanError
            /\ {r.absolute_path : r \in Records} = ExpectedDirectories)
    /\ [][WritingBegun => allDirectories' = allDirectories]_vars

\* C6 witness: the stream holds its lines, the collection has two records
C6_Witness ==
    /\ csvWriteStream.state = "opening"
    /\ pc = "write"
    /\ Len(allDirectories) >= 2

\* C7: when the promise of writeDirectoriesToFile has resolved the CSV file
\* holds the header and one row per record and the JSON file the collection
C7_ResolvedMeansWritten ==
    pc = "done" =>
        /\ csvFilePath(timestamp) \in DOMAIN dataFiles
        /\ dataFiles[csvFilePath(timestamp)] = csvChunks(allDirectories)
        /\ jsonFilePath(timestamp) \in DOMAIN dataFiles
        /\ dataFiles[jsonFilePath(timestamp)] = <<jsonContent(allDirectories)>>

\* C8: after a failed readdir or lstat of the walk the run is over: the
\* promise is rejected, main and the writer are never called, no output
\* file exists, and no record is added
C8_ScanErrorAbortsRun ==
    /\ [](scanError =>
            /\ pc = "rejected"
            /\ stack = <<>>
            /\ mainPass = 0
            /\ timestamp = 0
            /\ csvWriteStream = NoStream
            /\ dataFiles = <<>>
            /\ inFlight = {})
    /\ [][scanError => allDirectories' = allDirectories]_vars

\* C8 witness: an operation failed after a record had been added, with
\* directories still to visit
C8_Witness ==
    /\ scanError
    /\ allDirectories # <<>>
    /\ Len(allDirectories) < Cardinality(ExpectedDirectories)

\* C9: joining the scan root and a record's relative_path and normalizing
\* gives the record's absolute_path, for every record
C9_RelativePathRoundTrips ==
    \A r \in Records :
        normalizeOnto(DOCUMENTS_FOLDER_PATH, r.relative_path) = r.absolute_path

\* C9 witness: Documents/A/B has been recorded, with relative paths A and A/B
C9_Witness ==
    /\ \E r \in Records :
        /\ r.absolute_path = DOCUMENTS_FOLDER_PATH \o <<nA>>
        /\ r.relative_path = <<nA>>
    /\ \E r \in Records :
        /\ r.absolute_path = DOCUMENTS_FOLDER_PATH \o <<nA, nB>>
        /\ r.relative_path = <<nA, nB>>

\* C10: at most one file system operation of the run is in flight
C10_OneOperationInFlight == Cardinality(inFlight) <= 1

\* the directories of the tree the walk starts in: the root and the real
\* directories below it
TreeDirectories == {DOCUMENTS_FOLDER_PATH} \cup RealDirectories

\* C11: the walk lists only directories of the tree, each at most once, so
\* it issues at most as many readdir calls as the tree has directories; and
\* unless one of its operations fails it returns
C11_WalkTerminates ==
    /\ [](/\ \A i \in 1..Len(listed) : listed[i] \in TreeDirectories
          /\ \A i, j \in 1..Len(listed) : i # j => listed[i] # listed[j]
          /\ Len(listed) <= Cardinality(TreeDirectories))
    /\ <>(scanError \/ TraversalReturned)

\* C11 witness: the walk has returned, without a failure, from a tree in
\* which a symbolic link below a recorded directory points back to the root
C11_Witness ==
    /\ TraversalReturned
    /\ ~scanError
    /\ Len(listed) >= 2
    /\ \E p \in DOMAIN fsys :
            /\ IsUnderRoot(p)
            /\ Len(BelowRoot(p)) >= 2
            /\ ~InIgnoredSubtree(p)
            /\ fsys[p].kind = "link"
            /\ fsys[p].target = DOCUMENTS_FOLDER_PATH

====
